---- MODULE Spec2Model ----
(***************************************************************************)
(* Model of src/src/main.rs: the Mandelbrot renderer.                      *)
(*                                                                         *)
(* main() allocates the pixel buffer, cuts it into bands with chunks_mut,  *)
(* spawns one scoped thread per band that runs render() on its slice,      *)
(* joins them (crossbeam::scope(..).unwrap()) and calls write_image.       *)
(*                                                                         *)
(* Numbers of type f64 are modelled as exact rationals <<n, d>> in lowest  *)
(* terms (d > 0); <<0, 0>> stands for the non-finite result of a division  *)
(* by zero.  The inputs are drawn so that every intermediate value of the  *)
(* escape-time iteration stays inside TLC's integers.                      *)
(***************************************************************************)
EXTENDS Integers, Sequences, FiniteSets, TLC

VARIABLES
    bounds,         \* (width, height) parsed from args[2]           (line 17)
    upper_left,     \* parsed from args[3]                           (line 18)
    lower_right,    \* parsed from args[4]                           (line 19)
    pixels,         \* the shared pixel buffer                       (line 21)
    rows_per_band,  \* line 24
    bands,          \* the slices produced by chunks_mut             (line 28)
    workers,        \* the scoped threads spawned so far, in order   (line 38)
    pc,             \* the position of the driver thread in main
    image,          \* what write_image stored in the file
    writes,         \* per buffer index, the workers that stored to it
    mapArgs,        \* arguments of a single call of pixel_to_point
    mapResult,      \* its result
    escArgs,        \* arguments of a single call of escape_time
    escResult       \* its result

vars == <<bounds, upper_left, lower_right, pixels, rows_per_band, bands,
          workers, pc, image, writes, mapArgs, mapResult, escArgs, escResult>>

renderVars == <<bounds, upper_left, lower_right, pixels, rows_per_band, bands,
                workers, pc, image, writes>>
mapVars == <<mapArgs, mapResult>>
escVars == <<escArgs, escResult>>

----------------------------------------------------------------------------
(* Bounds of the model.                                                    *)

MaxWidth == 2          \* widths of the concurrent render: 1..MaxWidth
MaxHeight == 9         \* largest height of the concurrent render
MaxDriverHeight == 17  \* heights of the driver-only runs
MaxMapDim == 3         \* bounds of the single pixel_to_point calls
MaxLimit == 6          \* limits of the single escape_time calls
MaxWorkers == 9        \* worker counts of the partition arithmetic

----------------------------------------------------------------------------
(* f64 arithmetic, as exact rationals.                                     *)

NaN == <<0, 0>>

Abs(x) == IF x < 0 THEN -x ELSE x

RECURSIVE GCD(_, _)
GCD(a, b) == IF b = 0 THEN a ELSE GCD(b, a % b)

Rat(n, d) ==
    IF d = 0 THEN NaN
    ELSE LET g == GCD(Abs(n), Abs(d))
             s == IF d < 0 THEN -1 ELSE 1
         IN  <<(s * n) \div g, (s * d) \div g>>

IsNaN(a) == a[2] = 0

FromInt(n) == <<n, 1>>    \* `n as f64`

RAdd(a, b) == IF IsNaN(a) \/ IsNaN(b) THEN NaN
              ELSE Rat(a[1] * b[2] + b[1] * a[2], a[2] * b[2])
RSub(a, b) == IF IsNaN(a) \/ IsNaN(b) THEN NaN
              ELSE Rat(a[1] * b[2] - b[1] * a[2], a[2] * b[2])
RMul(a, b) == IF IsNaN(a) \/ IsNaN(b) THEN NaN
              ELSE Rat(a[1] * b[1], a[2] * b[2])
RDiv(a, b) == IF IsNaN(a) \/ IsNaN(b) THEN NaN
              ELSE Rat(a[1] * b[2], a[2] * b[1])
RGt(a, b)  == ~IsNaN(a) /\ ~IsNaN(b) /\ a[1] * b[2] > b[1] * a[2]
RLt(a, b)  == RGt(b, a)

Complex(re, im) == [re |-> re, im |-> im]
CInt(re, im) == Complex(FromInt(re), FromInt(im))

\* Complex<f64> multiplication and addition of the num crate, as used by z * z + c.
CMul(a, b) == Complex(RSub(RMul(a.re, b.re), RMul(a.im, b.im)),
                      RAdd(RMul(a.re, b.im), RMul(a.im, b.re)))
CAdd(a, b) == Complex(RAdd(a.re, b.re), RAdd(a.im, b.im))
norm_sqr(z) == RAdd(RMul(z.re, z.re), RMul(z.im, z.im))

----------------------------------------------------------------------------
(* Option<usize>                                                           *)

None == <<>>
Some(t) == <<t>>

----------------------------------------------------------------------------
(* escape_time, lines 51-60.                                               *)

\* The state of the loop: z, the iteration i to come, and the value
\* returned once the loop has returned (`done`).
escape_start == [z |-> CInt(0, 0), i |-> 0, done |-> FALSE, result |-> None]

\* A variant of the loop body that updates z before the test.
escape_step_m(s, c) ==
    IF s.done THEN s
    ELSE LET z == CAdd(CMul(s.z, s.z), c)
         IN  IF RGt(norm_sqr(z), FromInt(4))
             THEN [s EXCEPT !.done = TRUE, !.result = Some(s.i)]
             ELSE [s EXCEPT !.z = z, !.i = s.i + 1]

\* One iteration of the for loop, lines 54-57.
escape_step(s, c) ==
    IF s.done THEN s
    ELSE IF RGt(norm_sqr(s.z), FromInt(4))
         THEN [s EXCEPT !.done = TRUE, !.result = Some(s.i)]
         ELSE [s EXCEPT !.z = CAdd(CMul(s.z, s.z), c), !.i = s.i + 1]

\* n consecutive iterations (split in halves, which keeps the evaluation flat).
RECURSIVE escape_iterate(_, _, _)
escape_iterate(s, c, n) ==
    IF n = 0 \/ s.done THEN s
    ELSE IF n = 1 THEN escape_step(s, c)
    ELSE escape_iterate(escape_iterate(s, c, n \div 2), c, n - n \div 2)

\* `for i in 0..limit`, and the None of line 59 when the loop runs out.
escape_time(c, limit) == escape_iterate(escape_start, c, limit).result

----------------------------------------------------------------------------
(* pixel_to_point, lines 83-95.                                            *)

\* A variant that adds the row term instead of subtracting it.
pixel_to_point_m(bnds, pixel, ul, lr) ==
    LET width  == RSub(lr.re, ul.re)
        height == RSub(ul.im, lr.im)
    IN  Complex(RAdd(ul.re, RDiv(RMul(FromInt(pixel[1]), width), FromInt(bnds[1]))),
                RAdd(ul.im, RDiv(RMul(FromInt(pixel[2]), height), FromInt(bnds[2]))))

pixel_to_point(bnds, pixel, ul, lr) ==
    LET width  == RSub(lr.re, ul.re)
        height == RSub(ul.im, lr.im)
    IN  Complex(RAdd(ul.re, RDiv(RMul(FromInt(pixel[1]), width), FromInt(bnds[1]))),
                RSub(ul.im, RDiv(RMul(FromInt(pixel[2]), height), FromInt(bnds[2]))))

----------------------------------------------------------------------------
(* The driver: main, lines 21-47.                                          *)

threads == 8

\* A variant with the rounded-up division.
Min(a, b) == IF a < b THEN a ELSE b

RowsPerBand_m(height) == (height + threads - 1) \div threads

RowsPerBand(height) == height \div threads + 1

\* A variant that ends with an empty slice when chunk_size divides len.
chunks_mut_m(len, chunk_size) ==
    [k \in 1..(len \div chunk_size + 1) |->
        [start |-> (k - 1) * chunk_size,
         len   |-> Min(chunk_size, len - (k - 1) * chunk_size)]]

\* slice::chunks_mut(chunk_size) on a buffer of `len` bytes: consecutive
\* slices of chunk_size bytes, the last one holding what remains; no slice
\* is empty.  A slice is its offset in the buffer and its length.
chunks_mut(len, chunk_size) ==
    [k \in 1..((len + chunk_size - 1) \div chunk_size) |->
        [start |-> (k - 1) * chunk_size,
         len   |-> Min(chunk_size, len - (k - 1) * chunk_size)]]

\* A variant that multiplies by the height.
chunk_size_m(rpb, bnds) == rpb * bnds[2]

\* `rows_per_band * bounds.0`, line 28
chunk_size(rpb, bnds) == rpb * bnds[1]

\* Variants: bands counted from 1, and a lower-right corner on the last row.
band_top_m(rpb, i) == rpb * (i + 1)
band_lower_right_m(bnds, top, height, ul, lr) ==
    pixel_to_point(bnds, <<bnds[1], top + height - 1>>, ul, lr)

\* The per-band values computed in the loop body, lines 32-36 (i counts from 0).
band_top(rpb, i) == rpb * i
band_height(band, bnds) == band.len \div bnds[1]
band_bounds(band, bnds) == <<bnds[1], band_height(band, bnds)>>
band_upper_left(bnds, top, ul, lr) == pixel_to_point(bnds, <<0, top>>, ul, lr)
band_lower_right(bnds, top, height, ul, lr) ==
    pixel_to_point(bnds, <<bnds[1], top + height>>, ul, lr)

\* `vec![0; bounds.0 * bounds.1]`, line 21
new_pixels(bnds) == [k \in 1..(bnds[1] * bnds[2]) |-> 0]

main_chunks ==
    /\ pc = "main"
    /\ rows_per_band' = RowsPerBand(bounds[2])
    /\ bands' = chunks_mut(Len(pixels), chunk_size(rows_per_band', bounds))
    /\ pc' = "scope"
    /\ UNCHANGED <<bounds, upper_left, lower_right, pixels, workers, image, writes>>
    /\ UNCHANGED <<mapVars, escVars>>

\* One iteration of the for loop of lines 31-42: the values of the band and
\* the spawn of its thread.
main_spawn ==
    /\ pc = "scope"
    /\ Len(workers) < Len(bands)
    /\ LET i      == Len(workers)
           band   == bands[i + 1]
           top    == band_top(rows_per_band, i)
           height == band_height(band, bounds)
       IN  workers' = Append(workers,
               [status      |-> "spawned",
                start       |-> band.start,
                len         |-> band.len,
                top         |-> top,
                bounds      |-> band_bounds(band, bounds),
                upper_left  |-> band_upper_left(bounds, top, upper_left, lower_right),
                lower_right |-> band_lower_right(bounds, top, height, upper_left, lower_right),
                row         |-> 0,
                column      |-> 0])
    /\ UNCHANGED <<bounds, upper_left, lower_right, pixels, rows_per_band, bands,
                   pc, image, writes>>
    /\ UNCHANGED <<mapVars, escVars>>

Terminated(w) == w.status \in {"done", "panicked"}

\* A variant that does not wait for the threads.
scope_may_return_m(ws) == TRUE

\* The thread statuses the end of the scope lets the driver go on with.
scope_may_return(ws) == \A k \in 1..Len(ws) : Terminated(ws[k])
scope_result_ok(ws) == \A k \in 1..Len(ws) : ws[k].status # "panicked"

\* crossbeam::scope returns once the closure has returned and every spawned
\* thread has ended; its result is Err when a thread panicked, and unwrap()
\* then panics (lines 30, 43).
scope_join ==
    /\ pc = "scope"
    /\ Len(workers) = Len(bands)
    /\ scope_may_return(workers)
    /\ pc' = IF scope_result_ok(workers) THEN "write_image" ELSE "panic_scope"
    /\ UNCHANGED <<bounds, upper_left, lower_right, pixels, rows_per_band, bands,
                   workers, image, writes>>
    /\ UNCHANGED <<mapVars, escVars>>

\* write_image(..).expect(..), lines 47 and 121-130: the file receives the
\* buffer, or an I/O error ends the process.
write_image ==
    /\ pc = "write_image"
    /\ \E io_ok \in BOOLEAN :
          IF io_ok
          THEN image' = [written |-> TRUE, data |-> pixels] /\ pc' = "exit"
          ELSE image' = image /\ pc' = "panic_write"
    /\ UNCHANGED <<bounds, upper_left, lower_right, pixels, rows_per_band, bands,
                   workers, writes>>
    /\ UNCHANGED <<mapVars, escVars>>

----------------------------------------------------------------------------
(* Inputs.                                                                 *)

Region(ul, lr) == [ul |-> ul, lr |-> lr]

\* Plane regions given on the command line: one outside the circle of
\* radius 2, two of height zero, and a square around the set.
Regions ==
    { Region(CInt(2, 1), CInt(4, -1)),
      Region(CInt(-1, 0), CInt(1, 0)),
      Region(CInt(-2, 0), CInt(4, 0)),
      Region(CInt(-2, 2), CInt(2, -2)) }

IsInt(a) == a[2] = 1

\* Points whose orbit the rationals follow without leaving TLC's integers:
\* integer points, and points that have left the circle after one step.
Exact(c) == (IsInt(c.re) /\ IsInt(c.im)) \/ RGt(norm_sqr(c), FromInt(4))

Renderable(bnds, r) ==
    \A column \in 0..(bnds[1] - 1), row \in 0..(bnds[2] - 1) :
        Exact(pixel_to_point(bnds, <<column, row>>, r.ul, r.lr))

\* The points of the plane that the pixels of the admitted inputs map to.
PointsOf(b, r) ==
    { pixel_to_point(b, <<column, row>>, r.ul, r.lr) :
        column \in 0..(b[1] - 1), row \in 0..(b[2] - 1) }

\* The image sizes of the concurrent render.  Below `threads` rows every
\* band is one row, so heights 1 and 2 stand for those; from `threads`
\* rows on the bands are taller.
Widths == 1..MaxWidth
Heights == {1, 2} \cup (threads..MaxHeight)

PlanePoints ==
    UNION { PointsOf(in[1], in[2]) :
            in \in { x \in (Widths \X Heights) \X Regions : Renderable(x[1], x[2]) } }

----------------------------------------------------------------------------
(* The band worker: render, lines 97-119.                                  *)

IterLimit == 255

\* escape_time(point, 255) of line 111.  Its values at the points of the
\* admitted inputs are tabulated, so that they are evaluated once.
escape_times == [c \in PlanePoints |-> escape_time(c, IterLimit)]
escape_time_255(c) ==
    IF c \in DOMAIN escape_times THEN escape_times[c] ELSE escape_time(c, IterLimit)

\* `time as u8`
as_u8(n) == n % 256

\* A variant that stores the escape time itself.
intensity_m(t) == IF t = None THEN 0 ELSE as_u8(t[1])

\* The match of lines 111-114.
intensity(t) == IF t = None THEN 0 ELSE 255 - as_u8(t[1])

\* The assertion of line 103.
render_assert_ok(w) == w.len = w.bounds[1] * w.bounds[2]

\* Entry of render in thread k: the assertion, then the loop heads (a band
\* without rows or columns ends at once).
render_assert(k) ==
    /\ k \in 1..Len(workers)
    /\ workers[k].status = "spawned"
    /\ workers' = [workers EXCEPT ![k].status =
          IF ~render_assert_ok(workers[k]) THEN "panicked"
          ELSE IF workers[k].bounds[1] = 0 \/ workers[k].bounds[2] = 0 THEN "done"
          ELSE "running"]
    /\ UNCHANGED <<bounds, upper_left, lower_right, pixels, rows_per_band, bands,
                   pc, image, writes>>
    /\ UNCHANGED <<mapVars, escVars>>

\* The index of the slice that line 110 stores to.
local_index(w) == w.row * w.bounds[1] + w.column

render_point(w) ==
    pixel_to_point(w.bounds, <<w.column, w.row>>, w.upper_left, w.lower_right)

\* A variant that offsets by the band's top row instead of its first byte.
buffer_index_m(w, idx) == w.top + idx

\* The index of the whole buffer that an index of the slice stands for.
buffer_index(w, idx) == w.start + idx

\* One iteration of the inner loop, lines 108-114, in thread k.
render_pixel(k) ==
    /\ k \in 1..Len(workers)
    /\ workers[k].status = "running"
    /\ LET w    == workers[k]
           idx  == local_index(w)
           last == w.column + 1 = w.bounds[1] /\ w.row + 1 = w.bounds[2]
       IN  IF idx >= w.len
           THEN \* the slice index is out of range: the thread panics
                /\ workers' = [workers EXCEPT ![k].status = "panicked"]
                /\ UNCHANGED <<pixels, writes>>
           ELSE /\ pixels' = [pixels EXCEPT ![buffer_index(w, idx) + 1] =
                                 intensity(escape_time_255(render_point(w)))]
                /\ writes' = [writes EXCEPT ![buffer_index(w, idx) + 1] = Append(@, k)]
                /\ workers' = [workers EXCEPT
                      ![k].status = IF last THEN "done" ELSE "running",
                      ![k].column = IF w.column + 1 = w.bounds[1] THEN 0 ELSE w.column + 1,
                      ![k].row    = IF w.column + 1 = w.bounds[1] THEN w.row + 1 ELSE w.row]
    /\ UNCHANGED <<bounds, upper_left, lower_right, rows_per_band, bands, pc, image>>
    /\ UNCHANGED <<mapVars, escVars>>

----------------------------------------------------------------------------
(* Initial states.                                                         *)

IdleMap == /\ mapArgs = [bounds |-> <<1, 1>>, pixel |-> <<0, 0>>,
                         ul |-> CInt(0, 0), lr |-> CInt(0, 0)]
           /\ mapResult = [done |-> FALSE, value |-> CInt(0, 0)]
IdleEsc == /\ escArgs = [c |-> CInt(0, 0), limit |-> 0]
           /\ escResult = [done |-> FALSE, value |-> None]

\* The state of main after line 21, for the bounds and corners of the arguments.
InitMain(widths, heights) ==
    /\ bounds \in widths \X heights
    /\ \E r \in Regions :
          /\ Renderable(bounds, r)
          /\ upper_left = r.ul
          /\ lower_right = r.lr
    /\ pixels = new_pixels(bounds)
    /\ rows_per_band = 0
    /\ bands = <<>>
    /\ workers = <<>>
    /\ pc = "main"
    /\ image = [written |-> FALSE, data |-> <<>>]
    /\ writes = [k \in 1..(bounds[1] * bounds[2]) |-> <<>>]

Init == InitMain(Widths, Heights) /\ IdleMap /\ IdleEsc

Next ==
    \/ main_chunks
    \/ main_spawn
    \/ scope_join
    \/ write_image
    \/ \E k \in 1..threads : render_assert(k)
    \/ \E k \in 1..threads : render_pixel(k)

Spec == Init /\ [][Next]_vars

\* The driver alone, up to the end of the spawning loop, for taller images.
InitDriver == InitMain(Widths, 1..MaxDriverHeight) /\ IdleMap /\ IdleEsc

NextDriver ==
    \/ main_chunks
    \/ main_spawn

SpecDriver == InitDriver /\ [][NextDriver]_vars

----------------------------------------------------------------------------
(* Single calls of pixel_to_point.                                         *)

MapBounds == ((1..MaxMapDim) \X (1..MaxMapDim)) \cup {<<100, 100>>}
\* The regions above, one with its corners exchanged, and the region of
\* test_pixel_to_point (lines 132-139).
MapRegions ==
    Regions \cup {Region(CInt(4, -1), CInt(2, 1)), Region(CInt(-1, 1), CInt(1, -1))}

IdleMain ==
    /\ bounds = <<1, 1>>
    /\ upper_left = CInt(0, 0)
    /\ lower_right = CInt(0, 0)
    /\ pixels = <<0>>
    /\ rows_per_band = 0
    /\ bands = <<>>
    /\ workers = <<>>
    /\ pc = "idle"
    /\ image = [written |-> FALSE, data |-> <<>>]
    /\ writes = <<(<<>>)>>

InitMap ==
    /\ IdleMain
    /\ IdleEsc
    /\ \E b \in MapBounds, r \in MapRegions :
       \E column \in 0..b[1], row \in 0..b[2] :
          mapArgs = [bounds |-> b, pixel |-> <<column, row>>, ul |-> r.ul, lr |-> r.lr]
    /\ mapResult = [done |-> FALSE, value |-> CInt(0, 0)]

map_call ==
    /\ ~mapResult.done
    /\ mapResult' = [done  |-> TRUE,
                     value |-> pixel_to_point(mapArgs.bounds, mapArgs.pixel,
                                              mapArgs.ul, mapArgs.lr)]
    /\ UNCHANGED <<renderVars, mapArgs, escVars>>

NextMap == map_call

SpecMap == InitMap /\ [][NextMap]_vars

----------------------------------------------------------------------------
(* Single calls of escape_time.                                            *)

EscPoints ==
    { CInt(3, 0), CInt(-3, 0), CInt(4, 0), Complex(Rat(5, 2), FromInt(0)),
      Complex(Rat(-9, 4), FromInt(0)),
      CInt(0, 0), CInt(-1, 0), CInt(-2, 0), CInt(2, 0), CInt(1, 0),
      CInt(0, 1), CInt(1, 1), CInt(-1, 1), CInt(0, 3), CInt(2, 2) }

InitEscape ==
    /\ IdleMain
    /\ IdleMap
    /\ \E c \in EscPoints, limit \in 1..MaxLimit :
          escArgs = [c |-> c, limit |-> limit]
    /\ escResult = [done |-> FALSE, value |-> None]

escape_call ==
    /\ ~escResult.done
    /\ escResult' = [done |-> TRUE, value |-> escape_time(escArgs.c, escArgs.limit)]
    /\ UNCHANGED <<renderVars, mapVars, escArgs>>

NextEscape == escape_call

SpecEscape == InitEscape /\ [][NextEscape]_vars

----------------------------------------------------------------------------
(* Properties.                                                             *)

Width == bounds[1]
Height == bounds[2]
AllSpawned == pc # "main" /\ Len(workers) = Len(bands)

\* The row ranges that chunks_mut gives for n workers, as (top, height) pairs.
RowRanges(n) ==
    LET rpb == Height \div n + 1
        cs  == chunks_mut(Width * Height, rpb * Width)
    IN  [k \in 1..Len(cs) |-> <<rpb * (k - 1), cs[k].len \div Width>>]

Partitions(ranges, rpb) ==
    /\ \A r \in 0..(Height - 1) :
          Cardinality({k \in 1..Len(ranges) :
                          ranges[k][1] <= r /\ r < ranges[k][1] + ranges[k][2]}) = 1
    /\ \A k \in 1..Len(ranges) :
          /\ ranges[k][2] >= 1
          /\ ranges[k][1] >= 0 /\ ranges[k][1] + ranges[k][2] <= Height
          /\ k < Len(ranges) => /\ ranges[k][1] + ranges[k][2] = ranges[k + 1][1]
                                /\ ranges[k][2] = rpb
          /\ ranges[k][2] <= rpb

\* C1: the row ranges [top_i, top_i + height_i) of the bands partition
\* [0, height): each row lies in exactly one band, consecutive bands are
\* adjacent, only the last band may be shorter than rows_per_band.  Stated
\* of the bands the driver has spawned, and of the ranges the same
\* computation gives for every worker count 1..MaxWorkers.
C1_BandsPartitionRows ==
    /\ \A k \in 1..Len(workers) :
          /\ workers[k].top = IF k = 1 THEN 0
                              ELSE workers[k - 1].top + workers[k - 1].bounds[2]
          /\ workers[k].bounds[2] >= 1
          /\ workers[k].bounds[2] <= rows_per_band
          /\ k < Len(bands) => workers[k].bounds[2] = rows_per_band
    /\ AllSpawned =>
          /\ Partitions([k \in 1..Len(workers) |->
                            <<workers[k].top, workers[k].bounds[2]>>], rows_per_band)
          /\ workers[Len(workers)].top + workers[Len(workers)].bounds[2] = Height
    /\ \A n \in 1..MaxWorkers : Partitions(RowRanges(n), Height \div n + 1)

C1_Witness ==
    /\ AllSpawned
    /\ Len(workers) >= 3
    /\ workers[Len(workers)].bounds[2] < rows_per_band

\* C2: no index of the pixel buffer is stored to twice, every store of a
\* worker falls inside its own slice, and once the scope has returned
\* normally every index has been stored to exactly once.
C2_DisjointWrites ==
    /\ Len(writes) = Width * Height
    /\ \A idx \in 1..Len(writes) :
          /\ Len(writes[idx]) <= 1
          /\ \A j \in 1..Len(writes[idx]) :
                LET w == workers[writes[idx][j]]
                IN  w.start < idx /\ idx <= w.start + w.len
          /\ pc \in {"write_image", "exit", "panic_write"} => Len(writes[idx]) = 1

C2_Witness ==
    /\ pc = "exit"
    /\ Len(workers) >= 3
    /\ Width >= 2
    /\ \A idx \in 1..Len(writes) : Len(writes[idx]) = 1
    /\ \E i, j \in 1..Len(writes) : writes[i] # writes[j]

RealAxisOutside(c) ==
    /\ c.im = FromInt(0)
    /\ RGt(c.re, FromInt(2)) \/ RLt(c.re, FromInt(-2))

\* C4, as stated: for c on the real axis with |c| > 2 and limit >= 1,
\* escape_time(c, limit) is Some(0).
C4_EscapesAtStepZero ==
    (escResult.done /\ RealAxisOutside(escArgs.c) /\ escArgs.limit >= 1) =>
        escResult.value = Some(0)

\* C4, amended: for c on the real axis with |c| > 2, escape_time(c, limit)
\* is None for limit = 1 and Some(1) for every limit >= 2: the test of
\* iteration 0 is made on z_0 = 0, and c is first tested in iteration 1.
\* No point escapes at step 0.
C4_EscapesAtStepOne ==
    escResult.done =>
        /\ escResult.value # Some(0)
        /\ RealAxisOutside(escArgs.c) =>
              escResult.value = IF escArgs.limit = 1 THEN None ELSE Some(1)

C4_Witness ==
    /\ escResult.done
    /\ escArgs.c = CInt(3, 0)
    /\ escArgs.limit >= 2
    /\ escResult.value = Some(1)

Ceil(a, b) == (a + b - 1) \div b

\* C5, as stated: the driver cuts the rows into exactly 8 bands and spawns
\* exactly 8 workers.
C5_EightBands ==
    AllSpawned => Len(bands) = 8 /\ Len(workers) = 8

\* C5, amended: the driver cuts the rows into ceil(height / (height / 8 + 1))
\* bands, at least one and at most 8, and spawns one worker per band, in
\* band order.
C5_AtMostEightBands ==
    pc # "main" =>
        /\ Len(bands) = Ceil(Height, Height \div 8 + 1)
        /\ Len(bands) >= 1 /\ Len(bands) <= 8
        /\ Len(workers) <= Len(bands)
        /\ \A k \in 1..Len(workers) :
              workers[k].start = bands[k].start /\ workers[k].len = bands[k].len

C5_Witness ==
    /\ AllSpawned
    /\ Height = 8
    /\ Len(workers) = 4

\* The worker that stored to buffer index idx (from 1), and the pixel of
\* its band that the index stands for.
OwnerOf(idx) == writes[idx][1]
LocalPixel(idx) ==
    LET w == workers[OwnerOf(idx)]
    IN  <<(idx - 1 - w.start) % w.bounds[1], (idx - 1 - w.start) \div w.bounds[1]>>
LocalPoint(idx) ==
    LET w == workers[OwnerOf(idx)]
    IN  pixel_to_point(w.bounds, LocalPixel(idx), w.upper_left, w.lower_right)

C7_NoZeroDimension ==
    /\ Width >= 1 /\ Height >= 1
    /\ Len(pixels) = Width * Height
    /\ \A k \in 1..Len(bands) : bands[k].len >= 1
    /\ \A k \in 1..Len(workers) :
          /\ workers[k].bounds[1] >= 1 /\ workers[k].bounds[2] >= 1
          /\ ~IsNaN(workers[k].upper_left.re) /\ ~IsNaN(workers[k].upper_left.im)
          /\ ~IsNaN(workers[k].lower_right.re) /\ ~IsNaN(workers[k].lower_right.im)
          /\ workers[k].status # "panicked"
    /\ pc # "panic_scope"
    /\ image.written => Len(image.data) = Width * Height

C7_Witness ==
    /\ pc = "exit"
    /\ bounds = <<2, 1>>
    /\ upper_left = CInt(-1, 0) /\ lower_right = CInt(1, 0)
    /\ image.written /\ Len(image.data) = 2

MapW == mapArgs.bounds[1]
MapH == mapArgs.bounds[2]
MapCol == mapArgs.pixel[1]
MapRow == mapArgs.pixel[2]
RowAbove == pixel_to_point(mapArgs.bounds, <<MapCol, MapRow - 1>>, mapArgs.ul, mapArgs.lr)

\* The formulas of the claim, and what it says of the corners and the centre.
C8_Formula ==
    /\ mapResult.value.re =
          RAdd(mapArgs.ul.re,
               RDiv(RMul(FromInt(MapCol), RSub(mapArgs.lr.re, mapArgs.ul.re)), FromInt(MapW)))
    /\ mapResult.value.im =
          RSub(mapArgs.ul.im,
               RDiv(RMul(FromInt(MapRow), RSub(mapArgs.ul.im, mapArgs.lr.im)), FromInt(MapH)))
    /\ mapArgs.pixel = <<0, 0>> => mapResult.value = mapArgs.ul
    /\ mapArgs.pixel = mapArgs.bounds => mapResult.value = mapArgs.lr
    /\ ( /\ mapArgs.bounds = <<100, 100>> /\ mapArgs.pixel = <<50, 50>>
         /\ mapArgs.ul = CInt(-1, 1) /\ mapArgs.lr = CInt(1, -1) )
          => mapResult.value = CInt(0, 0)

C9_AssertionHolds ==
    /\ \A k \in 1..Len(bands) : bands[k].len % Width = 0
    /\ \A k \in 1..Len(workers) :
          /\ workers[k].len = workers[k].bounds[1] * workers[k].bounds[2]
          /\ workers[k].bounds = <<Width, workers[k].len \div Width>>
          /\ workers[k].status # "panicked"

C9_Witness ==
    /\ Len(workers) >= 3
    /\ Width >= 2
    /\ workers[Len(workers)].len < workers[1].len
    /\ \A k \in 1..Len(workers) : workers[k].status \in {"running", "done"}

GlobalPoint(column, row) == pixel_to_point(bounds, <<column, row>>, upper_left, lower_right)

====
